---- MODULE Spec2Model ----
(***************************************************************************)
(* Client-side state machines of the IAvoqado web application:             *)
(*   - the onboarding processing page (status polling, clarification       *)
(*     gating, view selection), specification Spec;                        *)
(*   - the chat page and its conversation session, specification SpecChat; *)
(*   - the session store (AuthProvider), specification SpecAuth;           *)
(*   - the API client's request function, specification SpecRequest;       *)
(*   - the conversations sidebar of the chat page, specification           *)
(*     SpecDirectory;                                                      *)
(*   - the upload page and the review page, specification SpecOnboarding.  *)
(* React semantics used throughout: a handler's state updates are batched  *)
(* into one commit; after a commit the effects whose dependencies changed  *)
(* run, children before parents; an update made by an effect gives a       *)
(* second commit.  One action of the model is one handler together with    *)
(* the commits and effects it causes.                                      *)
(***************************************************************************)
EXTENDS Integers, Sequences, FiniteSets, TLC

\* ------------------------------------------------------------------------
\* Bounds of the model
\* ------------------------------------------------------------------------
MaxStale == 2
MaxErrors == 1
MaxComplete == 2
MaxConvs == 3
MaxAsks == 2
MaxLoads == 1
MaxTokens == 2
MaxCalls == 2
MaxDeletes == 2
MaxFiles == 2
MaxCancels == 1

\* ------------------------------------------------------------------------
\* Onboarding processing page
\* ------------------------------------------------------------------------
VARIABLES
  token,              \* useAuth().token: "none" or "tok"
  restorePending,     \* AuthProvider is still validating a stored token
  pageMounted,        \* ProcessingPage is mounted
  status,             \* useState<ProcessingStatus | null>
  error,              \* useState<string | null>, TRUE when a message is set
  showClarification,  \* useState(false)
  liveFetch,          \* a getProcessingStatus call in flight whose closure has isMounted = true
  staleFetches,       \* getProcessingStatus calls in flight whose closure has isMounted = false
  timerPending,       \* pollTimeout is armed
  clarCall,           \* the clarification call in flight: "none", "submit" or "skip"
  completeCalls,      \* number of onComplete invocations
  navTarget,          \* last router.push target, "none" before any
  clarObserved,       \* history: a needs_clarification result was applied and no submit/skip resolved since
  prevStatus,         \* history: the status that the last applied poll result replaced
  fetchIssued,        \* history: the last step issued a getProcessingStatus request
  lastOp              \* history: name of the last step

pollVars == <<token, restorePending, pageMounted, status, error, showClarification,
              liveFetch, staleFetches, timerPending, clarCall, completeCalls,
              navTarget, clarObserved, prevStatus, fetchIssued, lastOp>>

stageOrder == << "uploading", "pre_validation", "analyzing_structure",
                 "awaiting_confirmation", "processing_data", "semantic_analysis",
                 "needs_clarification", "validating_quality", "generating_examples",
                 "ready" >>

Stages == { stageOrder[i] : i \in 1..Len(stageOrder) }

\* stage is optional in the response type
NoStage == "undefined"

\* The fields of a status response that the page and ProcessingStatus read.
PollResults == [ stage : Stages \cup {NoStage},
                 error : BOOLEAN,
                 validationErrors : 0..MaxErrors,
                 clarification : BOOLEAN ]

\* useState<ProcessingStatusType | null>(null)
NoStatus == [ stage |-> "null", error |-> FALSE, validationErrors |-> 0, clarification |-> FALSE ]

\* The JSX selection of ProcessingPage.
RenderViewNoValidation(tok, er, st, sc) ==
  IF tok = "none" THEN "login"
  ELSE IF er THEN "transport_error"
  ELSE IF st = NoStatus THEN "connecting"
  ELSE IF sc /\ st.clarification THEN "clarification"
  ELSE "progress"

RenderView(tok, er, st, sc) ==
  IF tok = "none" THEN "login"
  ELSE IF er THEN "transport_error"
  ELSE IF st = NoStatus THEN "connecting"
  ELSE IF st.validationErrors > 0 THEN "validation"
  ELSE IF sc /\ st.clarification THEN "clarification"
  ELSE "progress"

View == IF pageMounted THEN RenderView(token, error, status, showClarification) ELSE "unmounted"

\* pollStatus: shouldContinuePolling
ShouldContinuePollingAlways(result) == TRUE

ShouldContinuePolling(result) ==
  result.stage # "ready" /\ result.stage # "needs_clarification" /\ ~result.error

\* The guards at the head of the polling effect.
PollEffectStartsAlways(tok, sc) == tok # "none"

PollEffectStarts(tok, sc) == tok # "none" /\ ~sc

\* The cleanup of the polling effect: isMounted = false; clearTimeout(pollTimeout).
CleanupNoFlag(pl) == [ live |-> pl.live, stale |-> pl.stale, timer |-> FALSE ]

Cleanup(pl) ==
  [ live |-> FALSE,
    stale |-> pl.stale + (IF pl.live THEN 1 ELSE 0),
    timer |-> FALSE ]

\* ProcessingStatus stage effect: what it calls for a given status.
StageEffectCompletes(st) == st.stage = "ready"

StageEffectNeverClarifies(st) == FALSE

StageEffectNeedsClarification(st) == st.stage = "needs_clarification"

\* The commits that follow a handler which leaves the page state at
\* (tok1, sc1, st1, er1) and the polling closure at pl1.  First commit: the
\* ProcessingStatus stage effect runs when the component mounts or its
\* status.stage changed; then the polling effect re-runs when token or
\* showClarification changed.  Second commit: when the stage effect called
\* setShowClarification(true), the polling effect is cleaned up again.
Commit(tok1, sc1, st1, er1, pl1) ==
  LET v0 == RenderView(token, error, status, showClarification)
      v1 == RenderView(tok1, er1, st1, sc1)
      childRuns == v1 = "progress" /\ (v0 # "progress" \/ status.stage # st1.stage)
      complete == childRuns /\ StageEffectCompletes(st1)
      needsClar == childRuns /\ StageEffectNeedsClarification(st1)
      deps1 == tok1 # token \/ sc1 # showClarification
      starts1 == deps1 /\ PollEffectStarts(tok1, sc1)
      plA == IF deps1 THEN Cleanup(pl1) ELSE pl1
      plB == IF starts1 THEN [plA EXCEPT !.live = TRUE] ELSE plA
      sc2 == sc1 \/ needsClar
      deps2 == sc2 # sc1
      starts2 == deps2 /\ PollEffectStarts(tok1, sc2)
      plC == IF deps2 THEN Cleanup(plB) ELSE plB
      plD == IF starts2 THEN [plC EXCEPT !.live = TRUE] ELSE plC
  IN [ sc |-> sc2, pl |-> plD, complete |-> complete, issued |-> starts1 \/ starts2 ]

Closure == [ live |-> liveFetch, stale |-> staleFetches, timer |-> timerPending ]

\* Apply the state a handler produced, together with the commits it causes.
Apply(tok1, sc1, st1, er1, pl1, op) ==
  LET r == Commit(tok1, sc1, st1, er1, pl1) IN
  /\ r.pl.stale <= MaxStale
  /\ token' = tok1
  /\ status' = st1
  /\ error' = er1
  /\ showClarification' = r.sc
  /\ liveFetch' = r.pl.live
  /\ staleFetches' = r.pl.stale
  /\ timerPending' = r.pl.timer
  /\ completeCalls' = IF r.complete /\ completeCalls < MaxComplete
                        THEN completeCalls + 1 ELSE completeCalls
  /\ navTarget' = IF r.complete THEN "/chat" ELSE navTarget
  /\ fetchIssued' = r.issued
  /\ lastOp' = op

\* The page mounts with the token the AuthProvider has at that time; the
\* polling effect runs once on mount.
PollInit ==
  /\ token \in {"none", "tok"}
  /\ restorePending \in BOOLEAN
  /\ (token = "tok" => ~restorePending)
  /\ pageMounted = TRUE
  /\ status = NoStatus
  /\ error = FALSE
  /\ showClarification = FALSE
  /\ liveFetch = PollEffectStarts(token, FALSE)
  /\ staleFetches = 0
  /\ timerPending = FALSE
  /\ clarCall = "none"
  /\ completeCalls = 0
  /\ navTarget = "none"
  /\ clarObserved = FALSE
  /\ prevStatus = NoStatus
  /\ fetchIssued = PollEffectStarts(token, FALSE)
  /\ lastOp = "mount"

\* AuthProvider restore effect, .then branch: setToken(storedToken).
RestoreSucceeds ==
  /\ restorePending
  /\ restorePending' = FALSE
  /\ IF pageMounted
       THEN Apply("tok", showClarification, status, error, Closure, "RestoreSucceeds")
       ELSE /\ token' = "tok"
            /\ fetchIssued' = FALSE
            /\ lastOp' = "RestoreSucceeds"
            /\ UNCHANGED <<status, error, showClarification, liveFetch, staleFetches,
                           timerPending, completeCalls, navTarget>>
  /\ UNCHANGED <<pageMounted, clarCall, clarObserved, prevStatus>>

\* AuthProvider restore effect, .catch branch: the token stays null.
RestoreFails ==
  /\ restorePending
  /\ restorePending' = FALSE
  /\ fetchIssued' = FALSE
  /\ lastOp' = "RestoreFails"
  /\ UNCHANGED <<token, pageMounted, status, error, showClarification, liveFetch,
                 staleFetches, timerPending, clarCall, completeCalls, navTarget,
                 clarObserved, prevStatus>>

\* Header button "Salir": AuthProvider.logout sets the token to null.
Logout ==
  /\ pageMounted
  /\ token = "tok"
  /\ Apply("none", showClarification, status, error, Closure, "Logout")
  /\ UNCHANGED <<restorePending, pageMounted, clarCall, clarObserved, prevStatus>>

\* pollStatus, try branch: the status request of a live closure resolves.
PollSucceeds(result) ==
  /\ liveFetch
  /\ LET pl1 == [ live |-> FALSE, stale |-> staleFetches,
                  timer |-> ShouldContinuePolling(result) ]
     IN IF pageMounted
          THEN /\ Apply(token, showClarification, result, FALSE, pl1, "PollSucceeds")
               /\ clarObserved' = (clarObserved \/ result.stage = "needs_clarification")
               /\ prevStatus' = status
          ELSE /\ liveFetch' = FALSE
               /\ timerPending' = pl1.timer
               /\ fetchIssued' = FALSE
               /\ lastOp' = "PollSucceeds"
               /\ UNCHANGED <<token, status, error, showClarification, staleFetches,
                              completeCalls, navTarget, clarObserved, prevStatus>>
  /\ UNCHANGED <<restorePending, pageMounted, clarCall>>

\* pollStatus, catch branch: it only calls setError, no setTimeout.
CatchSchedulesRetryAlways == TRUE

CatchSchedulesRetry == FALSE

\* pollStatus, catch branch: the status request of a live closure rejects.
PollFails ==
  /\ liveFetch
  /\ LET pl1 == [ live |-> FALSE, stale |-> staleFetches,
                  timer |-> timerPending \/ CatchSchedulesRetry ]
     IN IF pageMounted
          THEN Apply(token, showClarification, status, TRUE, pl1, "PollFails")
          ELSE /\ liveFetch' = FALSE
               /\ fetchIssued' = FALSE
               /\ lastOp' = "PollFails"
               /\ UNCHANGED <<token, status, error, showClarification, staleFetches,
                              timerPending, completeCalls, navTarget>>
  /\ UNCHANGED <<restorePending, pageMounted, clarCall, clarObserved, prevStatus>>

\* A status request whose closure was cleaned up resolves or rejects:
\* isMounted is false, nothing happens.
StalePollResolves ==
  /\ staleFetches > 0
  /\ staleFetches' = staleFetches - 1
  /\ fetchIssued' = FALSE
  /\ lastOp' = "StalePollResolves"
  /\ UNCHANGED <<token, restorePending, pageMounted, status, error, showClarification,
                 liveFetch, timerPending, clarCall, completeCalls, navTarget,
                 clarObserved, prevStatus>>

\* setTimeout(pollStatus, POLL_INTERVAL) expires: pollStatus issues a request.
TimerFires ==
  /\ timerPending
  /\ timerPending' = FALSE
  /\ liveFetch' = TRUE
  /\ fetchIssued' = TRUE
  /\ lastOp' = "TimerFires"
  /\ UNCHANGED <<token, restorePending, pageMounted, status, error, showClarification,
                 staleFetches, clarCall, completeCalls, navTarget, clarObserved, prevStatus>>

\* ClarificationQuestions: handleSubmit / handleSkip call onSubmit / onSkip;
\* both buttons are disabled while either call is pending.
ClickClarification(kind) ==
  /\ View = "clarification"
  /\ clarCall = "none"
  /\ clarCall' = kind
  /\ fetchIssued' = FALSE
  /\ lastOp' = IF kind = "submit" THEN "ClickSubmit" ELSE "ClickSkip"
  /\ UNCHANGED <<token, restorePending, pageMounted, status, error, showClarification,
                 liveFetch, staleFetches, timerPending, completeCalls, navTarget,
                 clarObserved, prevStatus>>

\* handleClarificationSubmit / handleClarificationSkip after the await:
\* outcome "ok" is result.success, "refused" a response without success,
\* "throws" a rejected call.  Only "ok" calls setShowClarification(false).
ClarificationResolves(outcome) ==
  /\ clarCall # "none"
  /\ clarCall' = "none"
  /\ clarObserved' = FALSE
  /\ LET op == (IF clarCall = "submit" THEN "Submit" ELSE "Skip") \o outcome IN
     IF pageMounted /\ outcome = "Ok"
       THEN Apply(token, FALSE, status, error, Closure, op)
       ELSE /\ fetchIssued' = FALSE
            /\ lastOp' = op
            /\ UNCHANGED <<token, status, error, showClarification, liveFetch,
                           staleFetches, timerPending, completeCalls, navTarget>>
  /\ UNCHANGED <<restorePending, pageMounted, prevStatus>>

\* The buttons that navigate: "Cancelar y volver" (after confirm()), the
\* retry button of the transport-error view, onError of ProcessingStatus,
\* onReupload of ValidationErrors, "Ir a inicio" of the login prompt.
ClickNavigate(button) ==
  /\ pageMounted
  /\ \/ /\ button = "cancel"
        /\ View = "progress"
        /\ status.stage # "ready" /\ ~status.error /\ status.stage # "needs_clarification"
     \/ button = "retry_transport" /\ View = "transport_error"
     \/ button = "retry_processing" /\ View = "progress" /\ status.error
     \/ button = "reupload" /\ View = "validation"
     \/ button = "home" /\ View = "login"
  /\ navTarget' = IF button = "home" THEN "/" ELSE "/onboarding/upload"
  /\ fetchIssued' = FALSE
  /\ lastOp' = button
  /\ UNCHANGED <<token, restorePending, pageMounted, status, error, showClarification,
                 liveFetch, staleFetches, timerPending, clarCall, completeCalls,
                 clarObserved, prevStatus>>

\* The page unmounts (the pushed route replaces it, or the user leaves):
\* the polling effect's cleanup runs.
Unmount ==
  /\ pageMounted
  /\ pageMounted' = FALSE
  /\ LET pl == Cleanup(Closure) IN
     /\ pl.stale <= MaxStale
     /\ liveFetch' = pl.live
     /\ staleFetches' = pl.stale
     /\ timerPending' = pl.timer
  /\ fetchIssued' = FALSE
  /\ lastOp' = "Unmount"
  /\ UNCHANGED <<token, restorePending, status, error, showClarification, clarCall,
                 completeCalls, navTarget, clarObserved, prevStatus>>

\* ------------------------------------------------------------------------
\* Chat page (ChatPage) and conversation session (ChatInterface)
\* ------------------------------------------------------------------------
VARIABLES
  selectedConversationId,  \* ChatPage state; 0 is null
  conversationMessages,    \* ChatPage state: the messages last loaded
  loads,                   \* conversationsApi.get calls in flight, per conversation
  messages,                \* ChatInterface state: the message log
  isLoading,               \* ChatInterface state
  currentConversationId,   \* ChatInterface state; 0 is undefined
  asks,                    \* chatApi.ask calls in flight
  askCount,                \* number of asks sent so far
  serverLog,               \* backend: the persisted messages of each conversation
  existing,                \* backend: the conversations that exist
  createdCalls,            \* number of onConversationCreated(id) calls, per conversation
  askedHere,               \* history: the asks sent since the user last selected or started a conversation
  chatLastOp               \* history: the last step and the question passed to it

chatVars == <<selectedConversationId, conversationMessages, loads, messages, isLoading,
              currentConversationId, asks, askCount, serverLog, existing, createdCalls,
              askedHere, chatLastOp>>

ConvIds == 1..MaxConvs

NoConv == 0

\* The questions passed to sendMessage: empty, whitespace only, text, padded text.
Questions == { <<>>, <<" ", " ">>, <<"a">>, <<" ", "a", " ">> }

\* String.prototype.trim
RECURSIVE TrimLeft(_)
TrimLeft(q) == IF q # <<>> /\ Head(q) = " " THEN TrimLeft(Tail(q)) ELSE q

RECURSIVE TrimRight(_)
TrimRight(q) ==
  IF q # <<>> /\ q[Len(q)] = " " THEN TrimRight(SubSeq(q, 1, Len(q) - 1)) ELSE q

Trim(q) == TrimRight(TrimLeft(q))

\* sendMessage: if (!question.trim() || isLoading) return
SendGuardNoLoading(question, loading) == Trim(question) = <<>>

SendGuard(question, loading) == Trim(question) = <<>> \/ loading

\* sendMessage: if (!currentConversationId && response.conversationId)
AdoptsAlways(closureConv, respConv) == respConv # NoConv

Adopts(closureConv, respConv) == closureConv = NoConv /\ respConv # NoConv

\* The hydrate effect's mapping of a persisted message to a DisplayMessage.
MapMessage(m) ==
  [ role |-> m.role, conv |-> m.conv, q |-> m.q, src |-> "persisted", err |-> FALSE ]

\* The hydrate effect: setMessages(initialMessages mapped), or [] when empty.
Hydrate(initialMessages) ==
  IF Len(initialMessages) > 0
    THEN [ i \in 1..Len(initialMessages) |-> MapMessage(initialMessages[i]) ]
    ELSE <<>>

\* sendMessage: the optimistic user message, the assistant message built
\* from the response, and the fallback built in the catch branch.
UserMessage(conv, id) ==
  [ role |-> "user", conv |-> conv, q |-> id, src |-> "local", err |-> FALSE ]

AssistantMessage(conv, id) ==
  [ role |-> "assistant", conv |-> conv, q |-> id, src |-> "local", err |-> FALSE ]

ErrorMessage(conv, id) ==
  [ role |-> "assistant", conv |-> conv, q |-> id, src |-> "local", err |-> TRUE ]

\* Backend: the exchange an answered ask persists in its conversation.
PersistedExchange(conv, id) ==
  << [ role |-> "user", conv |-> conv, q |-> id ],
     [ role |-> "assistant", conv |-> conv, q |-> id ] >>

\* The chat page starts with no selection and an empty log; every
\* conversation but the last identifier exists and holds one exchange.
ChatInit ==
  /\ selectedConversationId = NoConv
  /\ conversationMessages = <<>>
  /\ loads = [ c \in ConvIds |-> 0 ]
  /\ messages = <<>>
  /\ isLoading = FALSE
  /\ currentConversationId = NoConv
  /\ asks = {}
  /\ askCount = 0
  /\ existing = { c \in ConvIds : c < MaxConvs }
  /\ serverLog = [ c \in ConvIds |-> IF c < MaxConvs THEN PersistedExchange(c, 0) ELSE <<>> ]
  /\ createdCalls = [ c \in ConvIds |-> 0 ]
  /\ askedHere = {}
  /\ chatLastOp = [ name |-> "mount", q |-> <<>> ]

\* Sidebar onSelect(conv.id): setSelectedConversationId.  The hydrate effect
\* runs because conversationId changed, with the initialMessages of the
\* render, and ChatPage's effect starts loadMessages.
SelectConversation(c) ==
  /\ c \in existing
  /\ c # selectedConversationId
  /\ loads[c] < MaxLoads
  /\ selectedConversationId' = c
  /\ loads' = [loads EXCEPT ![c] = @ + 1]
  /\ messages' = Hydrate(conversationMessages)
  /\ currentConversationId' = c
  /\ askedHere' = {}
  /\ chatLastOp' = [ name |-> "select", q |-> <<>> ]
  /\ UNCHANGED <<conversationMessages, isLoading, asks, askCount, serverLog, existing,
                 createdCalls>>

\* handleNewConversation: setSelectedConversationId(null),
\* setConversationMessages([]); the hydrate effect empties the log.
NewConversation ==
  /\ selectedConversationId' = NoConv
  /\ conversationMessages' = <<>>
  /\ messages' = Hydrate(<<>>)
  /\ currentConversationId' = NoConv
  /\ askedHere' = {}
  /\ chatLastOp' = [ name |-> "new", q |-> <<>> ]
  /\ UNCHANGED <<loads, isLoading, asks, askCount, serverLog, existing, createdCalls>>

\* loadMessages, try branch: setConversationMessages(result.messages); the
\* hydrate effect runs because initialMessages changed.
LoadSucceeds(c) ==
  /\ loads[c] > 0
  /\ loads' = [loads EXCEPT ![c] = @ - 1]
  /\ conversationMessages' = serverLog[c]
  /\ messages' = Hydrate(serverLog[c])
  /\ currentConversationId' = selectedConversationId
  /\ chatLastOp' = [ name |-> "loaded", q |-> <<>> ]
  /\ UNCHANGED <<selectedConversationId, isLoading, asks, askCount, serverLog, existing,
                 createdCalls, askedHere>>

\* loadMessages, catch branch: setSelectedConversationId(null); ChatPage's
\* effect then calls setConversationMessages([]).
LoadFails(c) ==
  /\ loads[c] > 0
  /\ loads' = [loads EXCEPT ![c] = @ - 1]
  /\ IF selectedConversationId # NoConv
       THEN /\ selectedConversationId' = NoConv
            /\ conversationMessages' = <<>>
            /\ messages' = Hydrate(<<>>)
            /\ currentConversationId' = NoConv
       ELSE UNCHANGED <<selectedConversationId, conversationMessages, messages,
                        currentConversationId>>
  /\ chatLastOp' = [ name |-> "loadFailed", q |-> <<>> ]
  /\ UNCHANGED <<isLoading, asks, askCount, serverLog, existing, createdCalls, askedHere>>

\* sendMessage(question) up to the await.  Callers: the send button and the
\* Enter key (the textarea is disabled while isLoading), and the suggested
\* questions, which are shown whenever the log is empty.
SendMessage(question) ==
  /\ ~isLoading \/ messages = <<>>
  /\ chatLastOp' = [ name |-> "sendMessage", q |-> question ]
  /\ IF SendGuard(question, isLoading)
       THEN UNCHANGED <<messages, isLoading, asks, askCount, askedHere>>
       ELSE /\ askCount < MaxAsks
            /\ askCount' = askCount + 1
            /\ askedHere' = askedHere \cup {askCount + 1}
            /\ messages' = Append(messages, UserMessage(currentConversationId, askCount + 1))
            /\ isLoading' = TRUE
            /\ asks' = asks \cup { [ id |-> askCount + 1,
                                     conv |-> currentConversationId,
                                     len0 |-> Len(messages) ] }
  /\ UNCHANGED <<selectedConversationId, conversationMessages, loads,
                 currentConversationId, serverLog, existing, createdCalls>>

\* sendMessage after the await, try branch.  The backend answers in the
\* conversation it was given, or creates one.  The closure's
\* currentConversationId decides whether the identifier is adopted; adopting
\* it changes ChatPage's selection, so the hydrate effect and loadMessages run.
AskSucceeds(a, respConv) ==
  /\ a \in asks
  /\ IF a.conv # NoConv THEN respConv = a.conv ELSE respConv \in ConvIds \ existing
  /\ LET adopt == Adopts(a.conv, respConv)
         selected1 == IF adopt THEN respConv ELSE selectedConversationId
         appended == Append(messages, AssistantMessage(respConv, a.id))
         changed == selected1 # selectedConversationId
     IN /\ (changed => loads[selected1] < MaxLoads)
        /\ serverLog' = [serverLog EXCEPT ![respConv] = @ \o PersistedExchange(respConv, a.id)]
        /\ existing' = existing \cup {respConv}
        /\ createdCalls' = IF adopt THEN [createdCalls EXCEPT ![respConv] = @ + 1]
                           ELSE createdCalls
        /\ selectedConversationId' = selected1
        /\ loads' = IF changed THEN [loads EXCEPT ![selected1] = @ + 1] ELSE loads
        /\ messages' = IF changed THEN Hydrate(conversationMessages) ELSE appended
        /\ currentConversationId' =
             IF changed THEN selected1
             ELSE IF adopt THEN respConv ELSE currentConversationId
  /\ asks' = asks \ {a}
  /\ isLoading' = FALSE
  /\ chatLastOp' = [ name |-> "answered", q |-> <<>> ]
  /\ UNCHANGED <<conversationMessages, askCount, askedHere>>

\* sendMessage after the await, catch branch.
AskFails(a) ==
  /\ a \in asks
  /\ messages' = Append(messages, ErrorMessage(a.conv, a.id))
  /\ asks' = asks \ {a}
  /\ isLoading' = FALSE
  /\ chatLastOp' = [ name |-> "askFailed", q |-> <<>> ]
  /\ UNCHANGED <<selectedConversationId, conversationMessages, loads,
                 currentConversationId, askCount, serverLog, existing, createdCalls,
                 askedHere>>

\* ------------------------------------------------------------------------
\* Session store (AuthProvider)
\* ------------------------------------------------------------------------
VARIABLES
  authToken,          \* useState token: NoToken (null) or a token
  authUser,           \* useState user: NoToken (null) or the user of a token
  authOrganization,   \* useState organization: NoToken (null) or the organization of a token
  authIsLoading,      \* useState isLoading
  storedToken,        \* localStorage 'iavoqado_token'
  restoreMe,          \* the token of restore's pending authApi.me call, NoToken when none
  authCalls,          \* the login / register calls in progress
  authCallCount,      \* number of login / register calls made so far
  authThrew,          \* history: the last step rejected the promise of a caller
  authLastOp          \* history: the last step

authVars == <<authToken, authUser, authOrganization, authIsLoading, storedToken,
              restoreMe, authCalls, authCallCount, authThrew, authLastOp>>

NoToken == 0

\* The tokens the backend hands out.
Tokens == 1..MaxTokens

\* useState<string | null>(null): the stored token is not the session
\* token before it has been validated.
InitialTokenEager(stored) == stored

InitialToken(stored) == NoToken

\* Restore effect, .catch branch: what it leaves in localStorage.
RestoreCatchKeepsStored(stored) == stored

RestoreCatchStored(stored) == NoToken

\* login / register: the token passed to authApi.me, given the token of
\* the login / register response and the token of the closure's state.
MeTokenFromState(respTok, stateTok) == stateTok

MeToken(respTok, stateTok) == respTok

\* The state after the provider has mounted and its effect has run once.
AuthInit ==
  /\ storedToken \in Tokens \cup {NoToken}
  /\ authToken = InitialToken(storedToken)
  /\ authUser = NoToken
  /\ authOrganization = NoToken
  /\ authIsLoading = (storedToken # NoToken)
  /\ restoreMe = storedToken
  /\ authCalls = {}
  /\ authCallCount = 0
  /\ authThrew = FALSE
  /\ authLastOp = "mount"

\* Restore effect, .then and .finally: authApi.me(storedToken) resolved.
RestoreThen ==
  /\ restoreMe # NoToken
  /\ authToken' = restoreMe
  /\ authUser' = restoreMe
  /\ authOrganization' = restoreMe
  /\ authIsLoading' = FALSE
  /\ restoreMe' = NoToken
  /\ authThrew' = FALSE
  /\ authLastOp' = "RestoreThen"
  /\ UNCHANGED <<storedToken, authCalls, authCallCount>>

\* Restore effect, .catch and .finally: authApi.me(storedToken) rejected.
RestoreCatch ==
  /\ restoreMe # NoToken
  /\ storedToken' = RestoreCatchStored(storedToken)
  /\ authToken' = NoToken
  /\ authUser' = NoToken
  /\ authOrganization' = NoToken
  /\ authIsLoading' = FALSE
  /\ restoreMe' = NoToken
  /\ authThrew' = FALSE
  /\ authLastOp' = "RestoreCatch"
  /\ UNCHANGED <<authCalls, authCallCount>>

\* logout(), from the header button of any page.
AuthLogout ==
  /\ storedToken' = NoToken
  /\ authToken' = NoToken
  /\ authUser' = NoToken
  /\ authOrganization' = NoToken
  /\ authThrew' = FALSE
  /\ authLastOp' = "logout"
  /\ UNCHANGED <<authIsLoading, restoreMe, authCalls, authCallCount>>

\* login() / register() up to the first await.  HomePage renders its form
\* only when isLoading is false.
LoginOrRegister(kind) ==
  /\ ~authIsLoading
  /\ authCallCount < MaxCalls
  /\ authCallCount' = authCallCount + 1
  /\ authCalls' = authCalls \cup
       { [ id |-> authCallCount + 1, kind |-> kind, phase |-> "auth",
           stateTok |-> authToken, respTok |-> NoToken, meTok |-> NoToken ] }
  /\ authThrew' = FALSE
  /\ authLastOp' = kind
  /\ UNCHANGED <<authToken, authUser, authOrganization, authIsLoading, storedToken,
                 restoreMe>>

\* login / register: authApi.login / authApi.register resolved with tok;
\* the token is persisted and set, then authApi.me is called.
LoginReturns(c, tok) ==
  /\ c \in authCalls /\ c.phase = "auth"
  /\ storedToken' = tok
  /\ authToken' = tok
  /\ authUser' = tok
  /\ authCalls' = (authCalls \ {c}) \cup
       { [ c EXCEPT !.phase = "me", !.respTok = tok, !.meTok = MeToken(tok, c.stateTok) ] }
  /\ authThrew' = FALSE
  /\ authLastOp' = "LoginReturns"
  /\ UNCHANGED <<authOrganization, authIsLoading, restoreMe, authCallCount>>

\* login / register: the first call rejected; the rejection reaches the caller.
LoginRejected(c) ==
  /\ c \in authCalls /\ c.phase = "auth"
  /\ authCalls' = authCalls \ {c}
  /\ authThrew' = TRUE
  /\ authLastOp' = "LoginRejected"
  /\ UNCHANGED <<authToken, authUser, authOrganization, authIsLoading, storedToken,
                 restoreMe, authCallCount>>

\* login / register: authApi.me resolved; setOrganization(meData.organization).
MeReturns(c) ==
  /\ c \in authCalls /\ c.phase = "me"
  /\ authOrganization' = c.meTok
  /\ authCalls' = authCalls \ {c}
  /\ authThrew' = FALSE
  /\ authLastOp' = "MeReturns"
  /\ UNCHANGED <<authToken, authUser, authIsLoading, storedToken, restoreMe, authCallCount>>

\* login / register: authApi.me rejected; the rejection reaches the caller.
MeRejected(c) ==
  /\ c \in authCalls /\ c.phase = "me"
  /\ authCalls' = authCalls \ {c}
  /\ authThrew' = TRUE
  /\ authLastOp' = "MeRejected"
  /\ UNCHANGED <<authToken, authUser, authOrganization, authIsLoading, storedToken,
                 restoreMe, authCallCount>>

\* ------------------------------------------------------------------------
\* API client (request)
\* ------------------------------------------------------------------------
VARIABLES
  reqResponse,        \* the HTTP response fetch will deliver: status and body
  reqOutcome          \* what the request promise settled with

requestVars == <<reqResponse, reqOutcome>>

\* The value of a property that an object does not have.
Undefined == "undefined"

\* The values of the error / message fields of a JSON body.
FieldValues == {Undefined, "", "InvalidToken"}

\* Response bodies: text that is not JSON, the JSON value null, a JSON
\* string, and JSON objects with or without error and message fields.
Bodies ==
  { b \in [ kind : {"notjson", "null", "string", "object"},
            error : FieldValues, message : FieldValues ] :
      b.kind # "object" => (b.error = Undefined /\ b.message = Undefined) }

Statuses == {200, 201, 299, 300, 400, 404, 500}

Responses == [ status : Statuses, body : Bodies ]

\* Response.ok
ResponseOk(httpStatus) == httpStatus >= 200 /\ httpStatus <= 299

\* JavaScript: a || b on strings and undefined.
Or(a, b) == IF a = Undefined \/ a = "" THEN b ELSE a

Pending == [ kind |-> "pending" ]

\* The code read from the error body.
ErrorCode(data) == Or(data.error, "UnknownError")

\* request, from `const data = await response.json()` on.  Reading a
\* property of null throws a TypeError.
Request(resp) ==
  IF resp.body.kind = "notjson" THEN [ kind |-> "SyntaxError" ]
  ELSE IF ~ResponseOk(resp.status)
    THEN IF resp.body.kind = "null" THEN [ kind |-> "TypeError" ]
         ELSE [ kind |-> "ApiError",
                status |-> resp.status,
                code |-> ErrorCode(resp.body),
                message |-> Or(resp.body.message, "An error occurred") ]
    ELSE [ kind |-> "returns", data |-> resp.body ]

RequestInit == reqResponse \in Responses /\ reqOutcome = Pending

\* fetch resolved with reqResponse.
RequestResolves ==
  /\ reqOutcome = Pending
  /\ reqOutcome' = Request(reqResponse)
  /\ UNCHANGED reqResponse

\* fetch rejected (network failure): the rejection propagates.
RequestFetchRejects ==
  /\ reqOutcome = Pending
  /\ reqOutcome' = [ kind |-> "NetworkError" ]
  /\ UNCHANGED reqResponse

\* ------------------------------------------------------------------------
\* Conversations directory (ConversationsSidebar inside ChatPage)
\* ------------------------------------------------------------------------
VARIABLES
  conversations,      \* useState conversations: the identifiers listed
  sidebarLoading,     \* useState isLoading: conversationsApi.list is pending
  deleteId,           \* useState deleteId: the conversation of the open dialog
  deletes,            \* conversationsApi.delete calls in flight, with their closure
  sidebarLastOp       \* history: the last step of the sidebar

sidebarVars == <<conversations, sidebarLoading, deleteId, deletes, sidebarLastOp>>

\* The sidebar mounts and its effect calls loadConversations.
SidebarInit ==
  /\ conversations = {}
  /\ sidebarLoading = TRUE
  /\ deleteId = NoConv
  /\ deletes = {}
  /\ sidebarLastOp = "mount"

\* loadConversations, try / finally.
ListSucceeds ==
  /\ sidebarLoading
  /\ conversations' = existing
  /\ sidebarLoading' = FALSE
  /\ sidebarLastOp' = "listed"
  /\ UNCHANGED <<deleteId, deletes, chatVars>>

\* loadConversations, catch / finally.
ListFails ==
  /\ sidebarLoading
  /\ sidebarLoading' = FALSE
  /\ sidebarLastOp' = "listFailed"
  /\ UNCHANGED <<conversations, deleteId, deletes, chatVars>>

\* Menu item "Eliminar" of a listed conversation: setDeleteId(conv.id).
OpenDelete(c) ==
  /\ c \in conversations
  /\ deleteId = NoConv
  /\ deleteId' = c
  /\ sidebarLastOp' = "openDelete"
  /\ UNCHANGED <<conversations, sidebarLoading, deletes, chatVars>>

\* The dialog is dismissed: onOpenChange calls setDeleteId(null).
CancelDelete ==
  /\ deleteId # NoConv
  /\ deleteId' = NoConv
  /\ sidebarLastOp' = "cancelDelete"
  /\ UNCHANGED <<conversations, sidebarLoading, deletes, chatVars>>

\* AlertDialogAction "Eliminar": handleDelete runs up to its await with the
\* deleteId and selectedId of the render, and the dialog closes
\* (onOpenChange calls setDeleteId(null)).
ConfirmDelete ==
  /\ deleteId # NoConv
  /\ Cardinality(deletes) < MaxDeletes
  /\ [ id |-> deleteId, selectedId |-> selectedConversationId ] \notin deletes
  /\ deletes' = deletes \cup { [ id |-> deleteId, selectedId |-> selectedConversationId ] }
  /\ deleteId' = NoConv
  /\ sidebarLastOp' = "confirmDelete"
  /\ UNCHANGED <<conversations, sidebarLoading, chatVars>>

\* handleDelete: whether onSelect(null) is called after a successful delete.
ClearsSelection(closureSelectedId, closureDeleteId) == closureSelectedId = closureDeleteId

\* handleDelete after the await, try / finally.  onSelect(null) is
\* setSelectedConversationId(null); when that changes the selection,
\* ChatPage's effect calls setConversationMessages([]) and the session
\* hydrates from it.
DeleteSucceeds(d) ==
  /\ d \in deletes
  /\ d.id \in existing
  /\ deletes' = deletes \ {d}
  /\ existing' = existing \ {d.id}
  /\ conversations' = conversations \ {d.id}
  /\ IF ClearsSelection(d.selectedId, d.id) /\ selectedConversationId # NoConv
       THEN /\ selectedConversationId' = NoConv
            /\ conversationMessages' = <<>>
            /\ messages' = Hydrate(<<>>)
            /\ currentConversationId' = NoConv
       ELSE UNCHANGED <<selectedConversationId, conversationMessages, messages,
                        currentConversationId>>
  /\ deleteId' = NoConv
  /\ sidebarLastOp' = "deleted"
  /\ UNCHANGED <<sidebarLoading, loads, isLoading, asks, askCount, serverLog,
                 createdCalls, askedHere, chatLastOp>>

\* handleDelete after the await, catch / finally.
DeleteFails(d) ==
  /\ d \in deletes
  /\ deletes' = deletes \ {d}
  /\ deleteId' = NoConv
  /\ sidebarLastOp' = "deleteFailed"
  /\ UNCHANGED <<conversations, sidebarLoading, chatVars>>

\* ------------------------------------------------------------------------
\* Upload page and review page (onboarding steps 1 and 2)
\* ------------------------------------------------------------------------
VARIABLES
  route,              \* the route shown: "upload", "review", "processing", "chat"
  proposedModel,      \* sessionStorage 'proposedModel': "none" or "model"
  isUploading,        \* UploadPage useState isUploading
  showDpaDialog,      \* UploadPage useState showDpaDialog
  dpaAccepted,        \* UploadPage useState dpaAccepted
  isSigningDpa,       \* UploadPage useState isSigningDpa
  pendingFiles,       \* UploadPage useState pendingFiles: NoFiles (null) or a batch of files
  readyPending,       \* the checkReady call of UploadPage's effect is in flight
  signing,            \* signDpa call in flight, with the pendingFiles of its closure
  uploadCall,         \* handleUpload in flight: its files, its caller and its await
  reviewModel,        \* ReviewPage useState model is loaded
  isConfirming,       \* ReviewPage useState isConfirming
  confirmPending,     \* confirmModel(token, true) of the mounted ReviewPage in flight
  staleConfirms,      \* confirmModel(token, true) calls of unmounted ReviewPages in flight
  cancelCalls,        \* number of confirmModel(token, false) calls in flight
  obFailed,           \* history: the gateway call that failed in the last step
  obError,            \* history: the last step showed toast.error
  obLastOp            \* history: the last step

onboardingVars == <<route, proposedModel, isUploading, showDpaDialog, dpaAccepted,
                    isSigningDpa, pendingFiles, readyPending, signing, uploadCall,
                    reviewModel, isConfirming, confirmPending, staleConfirms,
                    cancelCalls, obFailed, obError, obLastOp>>

uploadState == <<isUploading, showDpaDialog, dpaAccepted, isSigningDpa, pendingFiles,
                 readyPending>>

NoFiles == 0

\* The batches of files the user can select.
FileBatches == 1..MaxFiles

NoSigning == [ active |-> FALSE, files |-> NoFiles ]

NoUpload == [ active |-> FALSE, files |-> NoFiles, origin |-> "none", phase |-> "none" ]

\* The errors startProcessing can reject with: the code of the ApiError and
\* whether its message includes 'Acuerdo de Procesamiento'.
UploadErrors == [ code : {"DPARequired", "ValidationError"}, mentionsDpa : BOOLEAN ]

\* handleUpload, catch: the test for a DPA error.
IsDpaError(err) == err.code = "DPARequired" \/ err.mentionsDpa

\* UploadPage mounts: initial state, and its effect calls checkReady.
OnboardingInit ==
  /\ route = "upload"
  /\ proposedModel = "none"
  /\ isUploading = FALSE
  /\ showDpaDialog = FALSE
  /\ dpaAccepted = FALSE
  /\ isSigningDpa = FALSE
  /\ pendingFiles = NoFiles
  /\ readyPending = TRUE
  /\ signing = NoSigning
  /\ uploadCall = NoUpload
  /\ reviewModel = FALSE
  /\ isConfirming = FALSE
  /\ confirmPending = FALSE
  /\ staleConfirms = 0
  /\ cancelCalls = 0
  /\ obFailed = "none"
  /\ obError = FALSE
  /\ obLastOp = "mount"

\* router.push('/onboarding/upload') from another route: UploadPage mounts.
UploadPageMounts ==
  IF route = "upload"
    THEN UNCHANGED uploadState
    ELSE /\ isUploading' = FALSE
         /\ showDpaDialog' = FALSE
         /\ dpaAccepted' = FALSE
         /\ isSigningDpa' = FALSE
         /\ pendingFiles' = NoFiles
         /\ readyPending' = TRUE

\* UploadPage effect: checkReady resolved or rejected ("ignore errors").
CheckReadyResolves(ok) ==
  /\ readyPending
  /\ readyPending' = FALSE
  /\ obFailed' = IF ok THEN "none" ELSE "checkReady"
  /\ obError' = FALSE
  /\ obLastOp' = "CheckReadyResolves"
  /\ UNCHANGED <<route, proposedModel, isUploading, showDpaDialog, dpaAccepted,
                 isSigningDpa, pendingFiles, signing, uploadCall, reviewModel,
                 isConfirming, confirmPending, staleConfirms, cancelCalls>>

\* handleFilesSelected(files), from the FileUploader button, which is
\* disabled while isUploading; with the DPA not accepted the files become
\* pending and the dialog opens, otherwise handleUpload starts.
FilesSelected(files) ==
  /\ route = "upload" /\ ~isUploading /\ ~showDpaDialog
  /\ IF ~dpaAccepted
       THEN /\ pendingFiles' = files
            /\ showDpaDialog' = TRUE
            /\ UNCHANGED <<isUploading, uploadCall>>
       ELSE /\ isUploading' = TRUE
            /\ uploadCall' = [ active |-> TRUE, files |-> files, origin |-> "select",
                               phase |-> "start" ]
            /\ UNCHANGED <<pendingFiles, showDpaDialog>>
  /\ obFailed' = "none"
  /\ obError' = FALSE
  /\ obLastOp' = "FilesSelected"
  /\ UNCHANGED <<route, proposedModel, dpaAccepted, isSigningDpa, readyPending, signing,
                 reviewModel, isConfirming, confirmPending, staleConfirms, cancelCalls>>

\* The DPA dialog is dismissed: onOpenChange(false).
CloseDpaDialog ==
  /\ route = "upload" /\ showDpaDialog
  /\ showDpaDialog' = FALSE
  /\ obFailed' = "none"
  /\ obError' = FALSE
  /\ obLastOp' = "CloseDpaDialog"
  /\ UNCHANGED <<route, proposedModel, isUploading, dpaAccepted, isSigningDpa,
                 pendingFiles, readyPending, signing, uploadCall, reviewModel,
                 isConfirming, confirmPending, staleConfirms, cancelCalls>>

\* handleSignDpa up to its await; the button is disabled while isSigningDpa.
ClickSignDpa ==
  /\ route = "upload" /\ showDpaDialog /\ ~isSigningDpa
  /\ isSigningDpa' = TRUE
  /\ signing' = [ active |-> TRUE, files |-> pendingFiles ]
  /\ obFailed' = "none"
  /\ obError' = FALSE
  /\ obLastOp' = "ClickSignDpa"
  /\ UNCHANGED <<route, proposedModel, isUploading, showDpaDialog, dpaAccepted,
                 pendingFiles, readyPending, uploadCall, reviewModel, isConfirming,
                 confirmPending, staleConfirms, cancelCalls>>

\* handleSignDpa after the await.  On success the dialog closes and, when
\* the closure's pendingFiles is set, handleUpload(pendingFiles) starts
\* (isSigningDpa stays true until handleUpload has returned).
SignResolves(ok) ==
  /\ signing.active
  /\ signing' = NoSigning
  /\ IF ok
       THEN /\ dpaAccepted' = TRUE
            /\ showDpaDialog' = FALSE
            /\ IF signing.files # NoFiles
                 THEN /\ isUploading' = TRUE
                      /\ uploadCall' = [ active |-> TRUE, files |-> signing.files,
                                         origin |-> "dpa", phase |-> "start" ]
                      /\ UNCHANGED isSigningDpa
                 ELSE /\ isSigningDpa' = FALSE
                      /\ UNCHANGED <<isUploading, uploadCall>>
       ELSE /\ isSigningDpa' = FALSE
            /\ UNCHANGED <<dpaAccepted, showDpaDialog, isUploading, uploadCall>>
  /\ obFailed' = IF ok THEN "none" ELSE "signDpa"
  /\ obError' = ~ok
  /\ obLastOp' = IF ok THEN "SignOk" ELSE "SignFails"
  /\ UNCHANGED <<route, proposedModel, pendingFiles, readyPending, reviewModel,
                 isConfirming, confirmPending, staleConfirms, cancelCalls>>

\* What remains of handleSignDpa after `await handleUpload(pendingFiles)`:
\* setPendingFiles(null) and, in finally, setIsSigningDpa(false).  pf is
\* the pendingFiles handleUpload left.
AfterUpload(origin, pf) ==
  /\ pendingFiles' = IF origin = "dpa" THEN NoFiles ELSE pf
  /\ isSigningDpa' = IF origin = "dpa" THEN FALSE ELSE isSigningDpa

\* ReviewPage mounts: its effect reads sessionStorage.
ReviewPageMounts == reviewModel' = (proposedModel' = "model") /\ isConfirming' = FALSE

\* handleUpload after `await startProcessing`: a response with success and
\* a model, with success and no model (checkReady is awaited next), without
\* success, or a rejection with error err.
UploadResolves(outcome, err) ==
  /\ uploadCall.active /\ uploadCall.phase = "start"
  /\ \/ /\ outcome = "model"
        /\ proposedModel' = "model"
        /\ route' = "review"
        /\ ReviewPageMounts
        /\ uploadCall' = NoUpload
        /\ isUploading' = FALSE
        /\ AfterUpload(uploadCall.origin, pendingFiles)
        /\ obFailed' = "none" /\ obError' = FALSE
        /\ UNCHANGED showDpaDialog
     \/ /\ outcome = "documents"
        /\ uploadCall' = [uploadCall EXCEPT !.phase = "ready"]
        /\ obFailed' = "none" /\ obError' = FALSE
        /\ UNCHANGED <<proposedModel, route, reviewModel, isConfirming, isUploading,
                       pendingFiles, isSigningDpa, showDpaDialog>>
     \/ /\ outcome = "unsuccessful"
        /\ uploadCall' = NoUpload
        /\ isUploading' = FALSE
        /\ AfterUpload(uploadCall.origin, pendingFiles)
        /\ obFailed' = "none" /\ obError' = FALSE
        /\ UNCHANGED <<proposedModel, route, reviewModel, isConfirming, showDpaDialog>>
     \/ /\ outcome = "rejects"
        /\ uploadCall' = NoUpload
        /\ isUploading' = FALSE
        /\ IF IsDpaError(err)
             THEN /\ showDpaDialog' = TRUE
                  /\ AfterUpload(uploadCall.origin, uploadCall.files)
                  /\ obFailed' = "startProcessing:DPA" /\ obError' = FALSE
             ELSE /\ UNCHANGED showDpaDialog
                  /\ AfterUpload(uploadCall.origin, pendingFiles)
                  /\ obFailed' = "startProcessing" /\ obError' = TRUE
        /\ UNCHANGED <<proposedModel, route, reviewModel, isConfirming>>
  /\ obLastOp' = "Upload_" \o outcome
  /\ UNCHANGED <<dpaAccepted, readyPending, signing, confirmPending, staleConfirms, cancelCalls>>

\* handleUpload after `await checkReady` (documents only): push('/chat')
\* when the chatbot is ready; a rejection goes to the same catch.
UploadReadyResolves(outcome) ==
  /\ uploadCall.active /\ uploadCall.phase = "ready"
  /\ uploadCall' = NoUpload
  /\ isUploading' = FALSE
  /\ AfterUpload(uploadCall.origin, pendingFiles)
  /\ route' = IF outcome = "ready" THEN "chat" ELSE route
  /\ obFailed' = IF outcome = "rejects" THEN "checkReady" ELSE "none"
  /\ obError' = (outcome = "rejects")
  /\ obLastOp' = "UploadReady_" \o outcome
  /\ UNCHANGED <<proposedModel, showDpaDialog, dpaAccepted, readyPending, signing,
                 reviewModel, isConfirming, confirmPending, staleConfirms, cancelCalls>>

\* handleConfirm up to its await; the button is disabled while isConfirming.
ClickConfirm ==
  /\ route = "review" /\ reviewModel /\ ~isConfirming
  /\ isConfirming' = TRUE
  /\ confirmPending' = TRUE
  /\ obFailed' = "none" /\ obError' = FALSE
  /\ obLastOp' = "ClickConfirm"
  /\ UNCHANGED <<route, proposedModel, uploadState, signing, uploadCall, reviewModel,
                 staleConfirms, cancelCalls>>

\* handleConfirm after the await: only a response with success removes the
\* stored model and pushes the processing route.
ConfirmResolves(outcome) ==
  /\ confirmPending
  /\ confirmPending' = FALSE
  /\ isConfirming' = FALSE
  /\ IF outcome = "ok"
       THEN proposedModel' = "none" /\ route' = "processing"
       ELSE UNCHANGED <<proposedModel, route>>
  /\ obFailed' = IF outcome = "rejects" THEN "confirmModel" ELSE "none"
  /\ obError' = (outcome = "rejects")
  /\ obLastOp' = "Confirm_" \o outcome
  /\ UNCHANGED <<uploadState, signing, uploadCall, reviewModel, staleConfirms, cancelCalls>>

\* handleCancel up to its await; the button is disabled while isConfirming.
ClickCancel ==
  /\ route = "review" /\ reviewModel /\ ~isConfirming
  /\ cancelCalls < MaxCancels
  /\ cancelCalls' = cancelCalls + 1
  /\ obFailed' = "none" /\ obError' = FALSE
  /\ obLastOp' = "ClickCancel"
  /\ UNCHANGED <<route, proposedModel, uploadState, signing, uploadCall, reviewModel,
                 isConfirming, confirmPending, staleConfirms>>

\* What handleCancel's catch branch leaves in sessionStorage.
CancelCatchStored(stored) == stored

\* handleCancel after the await: try removes the stored model, catch only
\* logs; both push the upload route.
CancelResolves(ok) ==
  /\ cancelCalls > 0
  /\ cancelCalls' = cancelCalls - 1
  /\ proposedModel' = IF ok THEN "none" ELSE CancelCatchStored(proposedModel)
  /\ route' = "upload"
  /\ UploadPageMounts
  /\ obFailed' = IF ok THEN "none" ELSE "cancelModel"
  /\ obError' = FALSE
  /\ obLastOp' = IF ok THEN "CancelOk" ELSE "CancelFails"
  /\ IF route = "review" /\ confirmPending
       THEN /\ staleConfirms < MaxCancels
            /\ staleConfirms' = staleConfirms + 1
            /\ confirmPending' = FALSE
       ELSE UNCHANGED <<staleConfirms, confirmPending>>
  /\ UNCHANGED <<signing, uploadCall, reviewModel, isConfirming>>

\* handleConfirm of an unmounted ReviewPage after the await: its state
\* updates do nothing; sessionStorage, the router and the toasts still act.
StaleConfirmResolves(outcome) ==
  /\ staleConfirms > 0
  /\ staleConfirms' = staleConfirms - 1
  /\ IF outcome = "ok"
       THEN proposedModel' = "none" /\ route' = "processing"
       ELSE UNCHANGED <<proposedModel, route>>
  /\ obFailed' = IF outcome = "rejects" THEN "confirmModel" ELSE "none"
  /\ obError' = (outcome = "rejects")
  /\ obLastOp' = "StaleConfirm_" \o outcome
  /\ UNCHANGED <<uploadState, signing, uploadCall, reviewModel, isConfirming,
                 confirmPending, cancelCalls>>

\* ------------------------------------------------------------------------
\* Specifications
\* ------------------------------------------------------------------------
vars == <<pollVars, chatVars, authVars, requestVars, sidebarVars, onboardingVars>>

nonPollVars == <<chatVars, authVars, requestVars, sidebarVars, onboardingVars>>

nonChatVars == <<pollVars, authVars, requestVars, sidebarVars, onboardingVars>>

nonAuthVars == <<pollVars, chatVars, requestVars, sidebarVars, onboardingVars>>

nonRequestVars == <<pollVars, chatVars, authVars, sidebarVars, onboardingVars>>

nonDirectoryVars == <<pollVars, authVars, requestVars, onboardingVars>>

nonOnboardingVars == <<pollVars, chatVars, authVars, requestVars, sidebarVars>>

\* The page that is not under study stays in a fixed state.
ChatIdle == ChatInit

PollIdle == PollInit /\ token = "none" /\ ~restorePending

AuthIdle == AuthInit /\ storedToken = NoToken

RequestIdle == RequestInit /\ reqResponse = [ status |-> 200, body |-> CHOOSE b \in Bodies : b.kind = "null" ]

SidebarIdle == SidebarInit

OnboardingIdle == OnboardingInit

Init == PollInit /\ ChatIdle /\ AuthIdle /\ RequestIdle /\ SidebarIdle /\ OnboardingIdle

Next ==
  \/ RestoreSucceeds /\ UNCHANGED nonPollVars
  \/ RestoreFails /\ UNCHANGED nonPollVars
  \/ Logout /\ UNCHANGED nonPollVars
  \/ \E result \in PollResults : PollSucceeds(result) /\ UNCHANGED nonPollVars
  \/ PollFails /\ UNCHANGED nonPollVars
  \/ StalePollResolves /\ UNCHANGED nonPollVars
  \/ TimerFires /\ UNCHANGED nonPollVars
  \/ \E kind \in {"submit", "skip"} : ClickClarification(kind) /\ UNCHANGED nonPollVars
  \/ \E outcome \in {"Ok", "Refused", "Throws"} :
        ClarificationResolves(outcome) /\ UNCHANGED nonPollVars
  \/ \E button \in {"cancel", "retry_transport", "retry_processing", "reupload", "home"} :
        ClickNavigate(button) /\ UNCHANGED nonPollVars
  \/ Unmount /\ UNCHANGED nonPollVars

Spec == Init /\ [][Next]_vars

InitChat == ChatInit /\ PollIdle /\ AuthIdle /\ RequestIdle /\ SidebarIdle /\ OnboardingIdle

NextChat ==
  \/ \E c \in ConvIds : SelectConversation(c) /\ UNCHANGED nonChatVars
  \/ NewConversation /\ UNCHANGED nonChatVars
  \/ \E c \in ConvIds : LoadSucceeds(c) /\ UNCHANGED nonChatVars
  \/ \E c \in ConvIds : LoadFails(c) /\ UNCHANGED nonChatVars
  \/ \E question \in Questions : SendMessage(question) /\ UNCHANGED nonChatVars
  \/ \E a \in asks, respConv \in ConvIds : AskSucceeds(a, respConv) /\ UNCHANGED nonChatVars
  \/ \E a \in asks : AskFails(a) /\ UNCHANGED nonChatVars

SpecChat == InitChat /\ [][NextChat]_vars

InitAuth == AuthInit /\ PollIdle /\ ChatIdle /\ RequestIdle /\ SidebarIdle /\ OnboardingIdle

NextAuth ==
  \/ RestoreThen /\ UNCHANGED nonAuthVars
  \/ RestoreCatch /\ UNCHANGED nonAuthVars
  \/ AuthLogout /\ UNCHANGED nonAuthVars
  \/ \E kind \in {"login", "register"} : LoginOrRegister(kind) /\ UNCHANGED nonAuthVars
  \/ \E c \in authCalls, tok \in Tokens : LoginReturns(c, tok) /\ UNCHANGED nonAuthVars
  \/ \E c \in authCalls : LoginRejected(c) /\ UNCHANGED nonAuthVars
  \/ \E c \in authCalls : MeReturns(c) /\ UNCHANGED nonAuthVars
  \/ \E c \in authCalls : MeRejected(c) /\ UNCHANGED nonAuthVars

SpecAuth == InitAuth /\ [][NextAuth]_vars

InitRequest == RequestInit /\ PollIdle /\ ChatIdle /\ AuthIdle /\ SidebarIdle /\ OnboardingIdle

NextRequest ==
  \/ RequestResolves /\ UNCHANGED nonRequestVars
  \/ RequestFetchRejects /\ UNCHANGED nonRequestVars

SpecRequest == InitRequest /\ [][NextRequest]_vars

\* The chat page with its sidebar; a conversation is selected from the
\* sidebar's list.
InitDirectory == ChatInit /\ SidebarInit /\ PollIdle /\ AuthIdle /\ RequestIdle /\ OnboardingIdle

NextDirectory ==
  \/ ListSucceeds /\ UNCHANGED nonDirectoryVars
  \/ ListFails /\ UNCHANGED nonDirectoryVars
  \/ \E c \in conversations :
        SelectConversation(c) /\ UNCHANGED <<nonDirectoryVars, sidebarVars>>
  \/ NewConversation /\ UNCHANGED <<nonDirectoryVars, sidebarVars>>
  \/ \E c \in ConvIds : LoadSucceeds(c) /\ UNCHANGED <<nonDirectoryVars, sidebarVars>>
  \/ \E c \in ConvIds : LoadFails(c) /\ UNCHANGED <<nonDirectoryVars, sidebarVars>>
  \/ \E c \in ConvIds : OpenDelete(c) /\ UNCHANGED nonDirectoryVars
  \/ CancelDelete /\ UNCHANGED nonDirectoryVars
  \/ ConfirmDelete /\ UNCHANGED nonDirectoryVars
  \/ \E d \in deletes : DeleteSucceeds(d) /\ UNCHANGED nonDirectoryVars
  \/ \E d \in deletes : DeleteFails(d) /\ UNCHANGED nonDirectoryVars

SpecDirectory == InitDirectory /\ [][NextDirectory]_vars

InitOnboarding ==
  OnboardingInit /\ PollIdle /\ ChatIdle /\ AuthIdle /\ RequestIdle /\ SidebarIdle

NextOnboarding ==
  \/ \E ok \in BOOLEAN : CheckReadyResolves(ok) /\ UNCHANGED nonOnboardingVars
  \/ \E files \in FileBatches : FilesSelected(files) /\ UNCHANGED nonOnboardingVars
  \/ CloseDpaDialog /\ UNCHANGED nonOnboardingVars
  \/ ClickSignDpa /\ UNCHANGED nonOnboardingVars
  \/ \E ok \in BOOLEAN : SignResolves(ok) /\ UNCHANGED nonOnboardingVars
  \/ \E outcome \in {"model", "documents", "unsuccessful", "rejects"}, err \in UploadErrors :
        UploadResolves(outcome, err) /\ UNCHANGED nonOnboardingVars
  \/ \E outcome \in {"ready", "notready", "rejects"} :
        UploadReadyResolves(outcome) /\ UNCHANGED nonOnboardingVars
  \/ ClickConfirm /\ UNCHANGED nonOnboardingVars
  \/ \E outcome \in {"ok", "refused", "rejects"} :
        ConfirmResolves(outcome) /\ UNCHANGED nonOnboardingVars
  \/ \E outcome \in {"ok", "refused", "rejects"} :
        StaleConfirmResolves(outcome) /\ UNCHANGED nonOnboardingVars
  \/ ClickCancel /\ UNCHANGED nonOnboardingVars
  \/ \E ok \in BOOLEAN : CancelResolves(ok) /\ UNCHANGED nonOnboardingVars

SpecOnboarding == InitOnboarding /\ [][NextOnboarding]_vars

\* ------------------------------------------------------------------------
\* Properties of the processing page
\* ------------------------------------------------------------------------
InFlightFetches == staleFetches + (IF liveFetch THEN 1 ELSE 0)

\* C1: once a needs_clarification poll result has been applied, no status
\* fetch is issued until a submit or skip call has resolved: every step that
\* issues a status fetch ends in a state where no needs_clarification
\* observation is outstanding.
C1_NoFetchWhileSuspended == [][fetchIssued' => ~clarObserved']_vars

\* C1 witness: polling is suspended on the clarification view after a
\* needs_clarification result, with no request and no timer outstanding.
C1_Witness ==
  /\ clarObserved /\ showClarification /\ View = "clarification"
  /\ status.stage = "needs_clarification"
  /\ InFlightFetches = 0 /\ ~timerPending /\ clarCall = "none"

\* C2: after submitClarificationAnswers resolves successfully on the mounted,
\* logged-in page, a status fetch is in flight whose response will be
\* applied (its closure is still live).
C2_ResumeIsApplied ==
  [][(lastOp' = "SubmitOk" /\ pageMounted /\ token = "tok") => liveFetch']_vars

\* C3: when a poll result with non-empty validationErrors is applied, the
\* validation-error view is rendered, whatever its stage and clarification
\* payload; the clarification view is never rendered for a status that has
\* validation errors.
C3_ValidationPriority ==
  [][ /\ (lastOp' = "PollSucceeds" /\ status'.validationErrors > 0) => View' = "validation"
      /\ status'.validationErrors > 0 => View' # "clarification" ]_vars

\* C3 witness: a needs_clarification result with a clarification payload and
\* a validation error has been applied and the validation view is shown.
C3_Witness ==
  /\ lastOp = "PollSucceeds"
  /\ status.validationErrors > 0 /\ status.clarification
  /\ status.stage = "needs_clarification"
  /\ View = "validation"

\* The view the latest ProcessingState alone determines.
LatestView(st) ==
  IF st.validationErrors > 0 THEN "validation"
  ELSE IF st.stage = "needs_clarification" /\ st.clarification THEN "clarification"
  ELSE "progress"

\* C4: while the page shows a successfully polled status, the view is the one
\* determined by the most recently applied ProcessingState alone.
C4_ViewOfLatestState ==
  (pageMounted /\ token = "tok" /\ ~error /\ status # NoStatus) => View = LatestView(status)

\* C4 witness: a result without validation errors replaced one that had
\* them, and the progress view is shown.
C4_Witness ==
  /\ lastOp = "PollSucceeds"
  /\ prevStatus # NoStatus /\ prevStatus.validationErrors > 0
  /\ status.validationErrors = 0
  /\ View = "progress"

\* C5: whenever the applied poll result reports stage ready, onComplete has
\* been invoked exactly once.
C5_CompleteExactlyOnce == status.stage = "ready" => completeCalls = 1

\* C6: at most one status fetch is in flight at any time.
C6_OneFetchInFlight == InFlightFetches <= 1

\* C7: after the page is unmounted no timer is pending and no request has a
\* live closure; from then on no step changes the page state, issues a status
\* fetch, arms the timer or navigates; the cancel button sends no request.
C7_UnmountIsFinal ==
  [][ /\ ~pageMounted' => (~timerPending' /\ ~liveFetch')
      /\ ~pageMounted => /\ status' = status /\ error' = error
                         /\ showClarification' = showClarification
                         /\ ~fetchIssued' /\ ~timerPending'
                         /\ completeCalls' = completeCalls /\ navTarget' = navTarget
      /\ lastOp' = "cancel" => /\ ~fetchIssued' /\ clarCall' = clarCall
                               /\ InFlightFetches' = InFlightFetches ]_vars

\* C7 witness: a status response arrived after the page was unmounted.
C7_Witness == ~pageMounted /\ lastOp = "StalePollResolves"

\* ------------------------------------------------------------------------
\* Properties of the conversation session
\* ------------------------------------------------------------------------
\* C8: at most one ask is in flight, and a sendMessage call made while an
\* ask has not resolved, or with an empty or whitespace-only question,
\* issues no request and leaves the message log unchanged.
C8_OneAskInFlight ==
  [][ /\ Cardinality(asks') <= 1
      /\ (chatLastOp'.name = "sendMessage" /\ (asks # {} \/ Trim(chatLastOp'.q) = <<>>))
           => (asks' = asks /\ messages' = messages /\ askCount' = askCount) ]_vars

\* C8 witness: sendMessage was called with a non-blank question while an ask
\* was in flight (the log is empty, so the call was not the one that sent it).
C8_Witness ==
  /\ chatLastOp.name = "sendMessage" /\ Trim(chatLastOp.q) # <<>>
  /\ asks # {} /\ isLoading /\ messages = <<>>

\* C9: the message log contains only messages of the active conversation.
C9_NoBleedThrough ==
  \A i \in DOMAIN messages : messages[i].conv = currentConversationId

\* C10: a sendMessage that passes the guard appends exactly one user
\* message; when its exchange completes the log is exactly 2 longer than
\* when it was sent and ends with an assistant-role message.
C10_ExchangeAddsTwo ==
  [][ /\ (chatLastOp'.name = "sendMessage" /\ asks' # asks)
           => (Len(messages') = Len(messages) + 1 /\ messages'[Len(messages')].role = "user")
      /\ \A a \in asks \ asks' :
           /\ Len(messages') = a.len0 + 2
           /\ messages'[Len(messages')].role = "assistant" ]_vars

\* C11: the question of every ask sent since the user last selected or
\* started a conversation is in the message log once its exchange has
\* completed.
C11_QuestionStays ==
  \A id \in askedHere :
    (\A a \in asks : a.id # id)
      => \E i \in DOMAIN messages : messages[i].role = "user" /\ messages[i].q = id

C17_SkipAlwaysResumes ==
  [][ (lastOp' \in {"SkipOk", "SkipRefused"} /\ pageMounted /\ token = "tok")
        => liveFetch' ]_vars

\* C18: an applied poll result that carries a processing error leaves the
\* page on the error card of the progress view without navigating, and the
\* route changes to the upload page only on a step that is a click on one
\* of the page's buttons.
C18_ErrorIsDeadEnd ==
  [][ /\ (lastOp' = "PollSucceeds" /\ pageMounted /\ status'.error)
         => (View' = "progress" /\ navTarget' = navTarget)
      /\ (navTarget' # navTarget /\ navTarget' = "/onboarding/upload")
         => lastOp' \in {"cancel", "retry_transport", "retry_processing", "reupload"}
    ]_vars

\* ------------------------------------------------------------------------
\* Properties of the session store
\* ------------------------------------------------------------------------
\* C12: user and organization are present only if token is present.
C12_SessionOnlyWithToken ==
  (authUser # NoToken \/ authOrganization # NoToken) => authToken # NoToken

\* C13: while restore's who-am-I call is pending, isLoading is true and no
\* session token is exposed; isLoading is false from the start exactly when
\* no token was stored, and otherwise becomes false only on the step in
\* which that call resolves or rejects.
C13_RestoreGate ==
  [][ /\ restoreMe # NoToken => (authIsLoading /\ authToken = NoToken)
      /\ restoreMe' # NoToken => (authIsLoading' /\ authToken' = NoToken)
      /\ authLastOp = "mount" => (authIsLoading <=> restoreMe # NoToken)
      /\ (authIsLoading /\ ~authIsLoading')
           => (restoreMe # NoToken /\ authLastOp' \in {"RestoreThen", "RestoreCatch"})
    ]_vars

\* C13 witness: restore is pending on a stored token and the user has
\* clicked logout meanwhile.
C13_Witness == restoreMe # NoToken /\ authLastOp = "logout"

\* C14: the step in which restore's who-am-I call rejects ends with token,
\* user and organization absent, the persisted token removed and isLoading
\* false, and rejects no caller's promise.
C14_RejectedRestoreIsSilent ==
  [][ authLastOp' = "RestoreCatch"
        => /\ authToken' = NoToken /\ authUser' = NoToken /\ authOrganization' = NoToken
           /\ storedToken' = NoToken
           /\ ~authIsLoading'
           /\ ~authThrew' ]_vars

\* C14 witness: restore's who-am-I call on a stored token has just rejected.
C14_Witness == authLastOp = "RestoreCatch" /\ restoreMe = NoToken /\ ~authIsLoading

\* C15: a who-am-I call of login / register starts only on the step in
\* which that login / register call returns, the returned token is persisted
\* by then, and the call carries exactly the returned token.
C15_MeUsesFreshToken ==
  [][ \A c \in authCalls' :
        (c.phase = "me" /\ c \notin authCalls)
          => /\ \E c0 \in authCalls : c0.id = c.id /\ c0.phase = "auth"
             /\ storedToken' = c.respTok
             /\ c.respTok \in Tokens
             /\ c.meTok = c.respTok ]_vars

\* C15 witness: a login made while another token was in memory and in
\* localStorage has returned a different token and its who-am-I call is
\* pending.
C15_Witness ==
  \E c \in authCalls :
    c.phase = "me" /\ c.stateTok # NoToken /\ c.stateTok # c.respTok

\* ------------------------------------------------------------------------
\* Properties of the API client
\* ------------------------------------------------------------------------
\* C16: when fetch has delivered a response: a non-2xx response whose body
\* parses as JSON fails with an ApiError that carries the HTTP status, the
\* body's error field or 'UnknownError' when it is absent or empty, and the
\* body's message field or the default message; a 2xx response whose body
\* parses returns the parsed body; a body that is not JSON fails with an
\* error that is not an ApiError.
C16_ErrorConversion ==
  LET body == reqResponse.body
      non2xx == reqResponse.status < 200 \/ reqResponse.status > 299
  IN reqOutcome.kind \notin {"pending", "NetworkError"} =>
       /\ (body.kind # "notjson" /\ non2xx) =>
            /\ reqOutcome.kind = "ApiError"
            /\ reqOutcome.status = reqResponse.status
            /\ reqOutcome.code = (IF body.error \in {Undefined, ""}
                                    THEN "UnknownError" ELSE body.error)
            /\ reqOutcome.message = (IF body.message \in {Undefined, ""}
                                       THEN "An error occurred" ELSE body.message)
       /\ (body.kind # "notjson" /\ ~non2xx) =>
            (reqOutcome.kind = "returns" /\ reqOutcome.data = body)
       /\ body.kind = "notjson" => reqOutcome.kind \notin {"ApiError", "returns"}

\* ------------------------------------------------------------------------
\* Properties of the conversations directory
\* ------------------------------------------------------------------------
\* C20: a delete call that succeeds removes its conversation from the list
\* and, when that conversation is the active one, clears the selection; a
\* delete call that fails changes neither the list nor the selection.
C20_DeleteKeepsSelectionSound ==
  [][ \A d \in deletes \ deletes' :
        /\ sidebarLastOp' = "deleted"
             => /\ d.id \notin conversations'
                /\ selectedConversationId = d.id => selectedConversationId' = NoConv
        /\ sidebarLastOp' = "deleteFailed"
             => /\ conversations' = conversations
                /\ selectedConversationId' = selectedConversationId ]_vars

\* ------------------------------------------------------------------------
\* Further properties of the processing page
\* ------------------------------------------------------------------------
\* const POLL_INTERVAL = 2000
POLL_INTERVAL == 2000

\* The delay of the timeout pollStatus has armed, 0 when none is armed.
ScheduledDelay == IF timerPending THEN POLL_INTERVAL ELSE 0

\* stageOrder.indexOf(stage), 0-based, -1 when absent; 0 for a missing stage.
IndexOf(stage) ==
  IF stage \in Stages
    THEN (CHOOSE i \in 1..Len(stageOrder) : stageOrder[i] = stage) - 1
    ELSE -1

CurrentStageIndex(stage) == IF stage = NoStage THEN 0 ELSE IndexOf(stage)

\* The file-level percentages a status can carry (progress.percentage).
FilePercentages == {0, 30, 100}

\* Math.round(((currentStageIndex + 1) / stageOrder.length) * 100), the
\* percentage shown; the status' progress.percentage is not read.
OverallProgressFromFiles(stage, percentage) == percentage

OverallProgress(stage, percentage) ==
  (((CurrentStageIndex(stage) + 1) * 1000) \div Len(stageOrder) + 5) \div 10

\* C23: whenever polling is suspended because of needs_clarification (the
\* latest status has that stage and showClarification is set), the
\* clarification view is displayed.
C23_SuspendedShowsClarification ==
  (pageMounted /\ token = "tok" /\ ~error /\ showClarification
     /\ status.stage = "needs_clarification")
    => View = "clarification"

\* C24: an applied poll result with validation errors shows the
\* validation view and leaves no timer armed and no status fetch in flight.
C24_ValidationStopsPolling ==
  [][ (lastOp' = "PollSucceeds" /\ pageMounted /\ status'.validationErrors > 0)
        => (View' = "validation" /\ ~timerPending' /\ ~liveFetch') ]_vars

\* C26: an applied poll result arms the next fetch, with a delay of 2000,
\* exactly when its stage is neither ready nor needs_clarification and it
\* carries no error; a timer never fires after a result that is ready or
\* carries an error, and such a result leaves no fetch in flight.
C26_ScheduleRule ==
  [][ /\ (lastOp' = "PollSucceeds" /\ pageMounted)
         => /\ timerPending' <=> ( /\ status'.stage \notin {"ready", "needs_clarification"}
                                   /\ ~status'.error )
            /\ ScheduledDelay' = (IF timerPending' THEN 2000 ELSE 0)
            /\ (status'.stage = "ready" \/ status'.error) => ~liveFetch'
      /\ lastOp' = "TimerFires" => (status.stage # "ready" /\ ~status.error)
    ]_vars

\* C26 witness: a result that continues has been applied and its timer has
\* fired, so the next fetch is in flight.
C26_Witness ==
  /\ lastOp = "TimerFires" /\ liveFetch
  /\ status.stage = "processing_data" /\ ~status.error

\* C27: a failed status fetch shows the transport-error view and arms no
\* timer and issues no fetch; a status fetch is issued only by a timer armed
\* by a successful poll or by a fresh start of the polling effect.
C27_NoTightRetry ==
  [][ /\ (lastOp' = "PollFails" /\ pageMounted /\ token = "tok")
         => (View' = "transport_error" /\ ~timerPending' /\ ~liveFetch' /\ ~fetchIssued')
      /\ lastOp' = "TimerFires" => lastOp # "PollFails"
      /\ fetchIssued' => lastOp' \in {"TimerFires", "RestoreSucceeds", "SubmitOk", "SkipOk"}
    ]_vars

\* C27 witness: a status fetch issued after an applied result has failed.
C27_Witness ==
  /\ lastOp = "PollFails" /\ pageMounted /\ error
  /\ status # NoStatus /\ View = "transport_error"

\* C30: for every stage of the declared order of 10 stages the percentage
\* shown is (index + 1) / 10 of 100, whatever the file-level percentage;
\* processing_data gives 50; the percentage does not decrease along the
\* declared order.
C30_ProgressFraction ==
  /\ Len(stageOrder) = 10
  /\ \A i \in 1..Len(stageOrder), pct \in FilePercentages :
       OverallProgress(stageOrder[i], pct) * 10 = i * 100
  /\ \A pct \in FilePercentages : OverallProgress("processing_data", pct) = 50
  /\ \A i, j \in 1..Len(stageOrder), pct \in FilePercentages :
       i <= j => OverallProgress(stageOrder[i], pct) <= OverallProgress(stageOrder[j], pct)
  /\ (View = "progress" /\ status.stage \in Stages)
       => \A pct \in FilePercentages :
            OverallProgress(status.stage, pct) = (IndexOf(status.stage) + 1) * 10

\* C30 witness: the progress card is shown for stage processing_data.
C30_Witness == View = "progress" /\ ~status.error /\ status.stage = "processing_data"

\* ------------------------------------------------------------------------
\* Further properties of the chat page
\* ------------------------------------------------------------------------
\* C22: when no question has been sent and every load has resolved, the
\* hydrated log is that of the selected conversation.
C22_LastSelectionWins ==
  (askCount = 0 /\ selectedConversationId # NoConv /\ \A c \in ConvIds : loads[c] = 0)
    => messages = Hydrate(serverLog[selectedConversationId])

\* ------------------------------------------------------------------------
\* Further properties of the session store
\* ------------------------------------------------------------------------
\* C25: when the only login / register call made, started on an empty
\* session, rejects (in its first call or in its who-am-I call), no token
\* is persisted and token and user are absent.
C25_RejectedLoginLeavesNoSession ==
  [][ \A c \in authCalls \ authCalls' :
        (authThrew' /\ authCallCount = 1 /\ c.stateTok = NoToken)
          => (storedToken' = NoToken /\ authToken' = NoToken /\ authUser' = NoToken)
    ]_vars

\* ------------------------------------------------------------------------
\* Properties of the upload and review pages
\* ------------------------------------------------------------------------
\* C21: every step in which a gateway call of the upload or review page
\* fails shows an error message (the DPA error is shown as the consent
\* dialog instead).
C21_FailuresAreShown ==
  [][ obFailed' = "startProcessing:DPA" \/ (obFailed' # "none" => obError') ]_vars

\* C28: when a resolved confirm or cancel call takes the user away from the
\* review step, no proposed model is left in sessionStorage.
C28_ModelDiscardedOnLeave ==
  [][ ( /\ route = "review" /\ route' # "review"
        /\ obLastOp' \in {"Confirm_ok", "CancelOk", "CancelFails"} )
        => proposedModel' = "none" ]_vars

\* C29: a startProcessing rejection that is a DPA error leaves its files
\* pending with the consent dialog open and no error message; a successful
\* signDpa with files pending starts the upload of those files.
C29_DpaFlow ==
  [][ /\ obFailed' = "startProcessing:DPA"
         => (pendingFiles' = uploadCall.files /\ showDpaDialog' /\ ~obError')
      /\ (obLastOp' = "SignOk" /\ pendingFiles # NoFiles)
         => (uploadCall'.active /\ uploadCall'.files = pendingFiles)
    ]_vars

====
